---- MODULE Spec2Model ----
(***************************************************************************)
(* Model of streamlit_app.py: one run of the OMR evaluation script.        *)
(*                                                                         *)
(* The script is a straight-line program that Streamlit runs top to        *)
(* bottom: it loads the answer key (sidebar uploader, then main pane       *)
(* uploader), reads the template and the tunables, caps the upload at 500  *)
(* files, and when the Evaluate button is pressed it loops over the files, *)
(* renders the debug overlay and reports the results.                      *)
(*                                                                         *)
(* The services the script calls (image decoding, preprocess, grid,        *)
(* detect, scoring, formatting, requests) are not part of the file.  Each  *)
(* of them is modelled by what the script can observe of it: it returns,   *)
(* or it raises.  Whether a step raises for a file is a property of that   *)
(* file (its "kind"), chosen with the upload.                              *)
(*                                                                         *)
(* Numbers: fill threshold and margin are in hundredths, scale and offset  *)
(* in thousandths.                                                         *)
(***************************************************************************)
EXTENDS Integers, Sequences, FiniteSets, TLC

VARIABLES
    key_file_sidebar,   \* sidebar key uploader: "none" | "valid" | "unreadable" | "unparsable"
    key_file_main,      \* main pane key uploader, same values
    key_sheet,          \* "" (None) or the selected key sheet name
    key_map,            \* "none" (None) or "loaded"
    tpl_file,           \* [kind, questions]: the template uploader's value
    fill_threshold,     \* slider, hundredths
    min_margin,         \* slider, hundredths
    scale_x, scale_y,   \* sliders, thousandths
    offset_x, offset_y, \* sliders, thousandths
    show_overlay,       \* checkbox
    save_to_db,         \* checkbox
    large_batch,        \* checkbox
    selected,           \* the image uploader's value (what the user uploaded)
    uploaded_files,     \* the script variable, reassigned by the 500-file cap
    results,            \* list of rows
    detailed_sheets,    \* list of (name, answers) per-image sheets
    i,                  \* number of loop iterations finished
    answers,            \* the loop's variable `answers`: [bound, image]
    detector_calls,     \* every call of evaluate_by_questions, as made
    posted,             \* payloads sent to the results API
    overlay,            \* [state, image, answers_of]
    reported,           \* [shown, summary, sheets]: what the report block displays/exports
    pc                  \* position of the script

vars == << key_file_sidebar, key_file_main, key_sheet, key_map, tpl_file,
           fill_threshold, min_margin, scale_x, scale_y, offset_x, offset_y,
           show_overlay, save_to_db, large_batch, selected, uploaded_files,
           results, detailed_sheets, i, answers, detector_calls, posted,
           overlay, reported, pc >>

config_vars == << key_file_sidebar, key_file_main, tpl_file,
                  fill_threshold, min_margin, scale_x, scale_y, offset_x, offset_y,
                  show_overlay, save_to_db, large_batch, selected >>

run_vars == << results, detailed_sheets, i, answers, detector_calls, posted,
               overlay, reported >>

----------------------------------------------------------------------------
(* Bounds and program constants *)

MaxBatch == 2          \* longest upload of the general specification
MaxScenario == 3       \* longest upload of the scenario specification
MaxOver == 2           \* how far an upload may exceed the cap
GridQuestions == 2     \* questions of the assumed grid layout

Cap == 500             \* the 500-file cap

sheet_version == "SetA"   \* sidebar selectbox, index 0 of settings.sheet_versions

----------------------------------------------------------------------------
(* Input domains *)

\* The step of the per-image pipeline at which a file makes the code raise.
Kinds == {"ok", "decode", "orient", "rectify", "roi", "detect", "score",
          "sheet", "persist"}

KeyFileKinds == {"none", "valid", "unreadable", "unparsable"}

Shapes == {<<3, 2>>, <<2, 4>>}      \* (h, w) of the rectified image

File(name, kind, shape) == [name |-> name, kind |-> kind, shape |-> shape]

Question(id, index, has_index) == [id |-> id, index |-> index, has_index |-> has_index]

\* Template documents: kind "none" is no upload, "unreadable" is bytes that
\* json.loads rejects, "invalid" is JSON whose structure makes the question
\* extraction raise, "valid" carries its questions in document order.
NoTemplate == [kind |-> "none", questions |-> <<>>]
UnreadableTemplate == [kind |-> "unreadable", questions |-> <<>>]
InvalidTemplate == [kind |-> "invalid", questions |-> <<>>]
ValidTemplate(qs) == [kind |-> "valid", questions |-> qs]

\* A document whose questions are out of index order, one of them without an
\* "index" entry, and a document already in index order.
UnsortedTemplate ==
    ValidTemplate(<< Question("a", 2, TRUE), Question("b", 1, TRUE),
                     Question("c", 0, FALSE) >>)
SortedTemplate ==
    ValidTemplate(<< Question("a", 1, TRUE), Question("b", 2, TRUE) >>)

TemplateDocs == { UnsortedTemplate, SortedTemplate }

Templates == {NoTemplate, UnreadableTemplate, InvalidTemplate} \cup TemplateDocs

FillThresholds == {45, 60}
MinMargins == {12, 20}
Alignments == { <<1000, 1000, 0, 0>>, <<1005, 995, 2, -3>> }

\* All uploads of at most n files whose kinds are in K and shapes in S.
RECURSIVE BatchesOfLen(_, _, _)
BatchesOfLen(n, K, S) ==
    IF n = 0 THEN { <<>> }
    ELSE { Append(b, File(n, k, s)) : b \in BatchesOfLen(n - 1, K, S), k \in K, s \in S }

BatchesUpTo(n, K, S) == UNION { BatchesOfLen(m, K, S) : m \in 0..n }

\* An upload of n sound files, except that the files at the positions in bad
\* do not decode.
BigBatch(n, bad) ==
    [ k \in 1..n |-> File(k, IF k \in bad THEN "decode" ELSE "ok", <<3, 2>>) ]

----------------------------------------------------------------------------
(* Pure helpers of the loop body *)

\* q.get("index", 0)
SortKey(q) == IF q.has_index THEN q.index ELSE 0

\* sorted(..., key=...) is a stable sort: q goes after every element whose key
\* is not larger.
RECURSIVE InsertByKey(_, _)
InsertByKey(q, sortedqs) ==
    IF sortedqs = <<>> THEN <<q>>
    ELSE IF SortKey(q) < SortKey(Head(sortedqs)) THEN <<q>> \o sortedqs
    ELSE <<Head(sortedqs)>> \o InsertByKey(q, Tail(sortedqs))

RECURSIVE SortedByIndexFrom(_, _)
SortedByIndexFrom(qs, acc) ==
    IF qs = <<>> THEN acc
    ELSE SortedByIndexFrom(Tail(qs), InsertByKey(Head(qs), acc))

\* The questions taken in document order, without the sort.
QuestionsInDocumentOrder(qs) == qs

\* sorted(tpl.get("questions", []), key=lambda q: q.get("index", 0))
SortedByIndex(qs) == SortedByIndexFrom(qs, <<>>)

\* estimate_grid_rois(w, h): synthetic questions with indices 0, 1, ...
estimate_grid_rois(w, h) ==
    [ k \in 1..GridQuestions |-> Question("grid", k - 1, TRUE) ]

\* `if key_map:`
KeyLoaded == key_map = "loaded"

\* `tpl_file is not None`
HasTemplate == tpl_file.kind # "none"

\* The statements of the try body that run under this configuration, in
\* program order.  "row" is results.append(row).
TrySteps ==
    << "decode", "orient", "rectify" >>
    \o (IF HasTemplate THEN << "template", "questions", "detect" >>
                       ELSE << "roi", "detect" >>)
    \o (IF KeyLoaded THEN << "score" >> ELSE << >>)
    \o << "row" >>
    \o (IF ~large_batch THEN << "sheet" >> ELSE << >>)
    \o (IF save_to_db /\ KeyLoaded THEN << "persist" >> ELSE << >>)

\* Does the statement raise when it runs for file uf?  The template is parsed
\* inside the loop body, so an unreadable or invalid template raises for every
\* file.
StepRaises(uf, step) ==
    \/ uf.kind = step
    \/ step = "template" /\ tpl_file.kind = "unreadable"
    \/ step = "questions" /\ tpl_file.kind = "invalid"

\* requests.post sits in its own try/except: pass.
Swallowed(step) == step = "persist"

\* Position in TrySteps of the first statement whose exception reaches the
\* loop's `except Exception`; 0 if none does.
RaisePos(uf) ==
    LET hits == { p \in 1..Len(TrySteps) :
                      StepRaises(uf, TrySteps[p]) /\ ~Swallowed(TrySteps[p]) }
    IN  IF hits = {} THEN 0
        ELSE CHOOSE p \in hits : \A r \in hits : p <= r

RaisedAt(uf) == IF RaisePos(uf) = 0 THEN "none" ELSE TrySteps[RaisePos(uf)]

\* The statement was started for uf.
Started(uf, step) ==
    \E p \in 1..Len(TrySteps) :
        /\ TrySteps[p] = step
        /\ (RaisePos(uf) = 0 \/ p <= RaisePos(uf))

\* The statement ran to its end for uf.
Completed(uf, step) == Started(uf, step) /\ ~StepRaises(uf, step)

\* Keyword arguments of the evaluate_by_questions call.
DetectorKwargs ==
    IF HasTemplate
    THEN { <<"scale_x", scale_x>>, <<"scale_y", scale_y>>,
           <<"offset_x", offset_x>>, <<"offset_y", offset_y>> }
    ELSE { }

\* The questions passed to evaluate_by_questions.
ResolvedQuestions(uf) ==
    IF HasTemplate THEN SortedByIndex(tpl_file.questions)
    ELSE estimate_grid_rois(uf.shape[2], uf.shape[1])

DetectorCall(uf) ==
    [ image |-> uf.name,
      strategy |-> IF HasTemplate THEN "template" ELSE "grid",
      grid_wh |-> IF HasTemplate THEN <<0, 0>> ELSE <<uf.shape[2], uf.shape[1]>>,
      questions |-> ResolvedQuestions(uf),
      kwargs |-> DetectorKwargs ]

\* key_sheet or sheet_version
SetName == IF key_sheet # "" THEN key_sheet ELSE sheet_version

\* The summary row of a file that got through scoring.  scores_of names the
\* image whose answers the subject columns and the total were computed from;
\* 0 when the row has no score columns.
SuccessRow(uf) ==
    [ filename |-> uf.name, Set |-> SetName,
      scores_of |-> IF KeyLoaded THEN uf.name ELSE 0,
      error |-> "" ]

\* {"filename": uf.name, "error": str(e)}
FailureRow(uf, step) ==
    [ filename |-> uf.name, Set |-> "", scores_of |-> 0, error |-> step ]

Sheet(uf) == [ name |-> uf.name, answers_of |-> uf.name ]

Payload(uf) == [ student_code |-> uf.name, sheet_version |-> SetName,
                 answers_of |-> uf.name ]

AppendIf(cond, seq, x) == IF cond THEN Append(seq, x) ELSE seq

----------------------------------------------------------------------------
(* Initial states: the widgets' values when the script starts *)

Unbound == [bound |-> FALSE, image |-> 0]
NoOverlay == [state |-> "none", image |-> 0, answers_of |-> 0]
NotReported == [shown |-> FALSE, summary |-> <<>>, sheets |-> <<>>]

InitOver(Batches, Tpls, SidebarKeys, MainKeys, Tunables, Overlays, Saves, Larges) ==
    /\ selected \in Batches
    /\ uploaded_files = selected
    /\ tpl_file \in Tpls
    /\ key_file_sidebar \in SidebarKeys
    /\ key_file_main \in MainKeys
    /\ \E t \in Tunables :
          /\ fill_threshold = t[1] /\ min_margin = t[2]
          /\ scale_x = t[3][1] /\ scale_y = t[3][2]
          /\ offset_x = t[3][3] /\ offset_y = t[3][4]
    /\ show_overlay \in Overlays
    /\ save_to_db \in Saves
    /\ large_batch \in Larges
    /\ key_sheet = ""
    /\ key_map = "none"
    /\ results = <<>>
    /\ detailed_sheets = <<>>
    /\ i = 0
    /\ answers = Unbound
    /\ detector_calls = <<>>
    /\ posted = <<>>
    /\ overlay = NoOverlay
    /\ reported = NotReported
    /\ pc = "key_sidebar"

\* The sliders as the widgets create them.
DefaultTunables == { << 45, 12, <<1000, 1000, 0, 0>> >> }

AllTunables == FillThresholds \X MinMargins \X Alignments

\* Uploads of up to MaxBatch files of every kind, under every template, key
\* upload and checkbox setting, the sliders at their defaults.
Init ==
    InitOver(BatchesUpTo(MaxBatch, Kinds, {<<3, 2>>}), Templates,
             KeyFileKinds, {"none", "valid"}, DefaultTunables,
             BOOLEAN, BOOLEAN, BOOLEAN)

\* Every configuration, on uploads of at most one file.
InitConfigs ==
    InitOver(BatchesUpTo(1, Kinds, {<<3, 2>>}), Templates,
             KeyFileKinds, {"none", "valid"}, DefaultTunables,
             BOOLEAN, BOOLEAN, BOOLEAN)

\* Uploads of up to MaxScenario files of every kind with a key loaded and
\* results saved, with and without a template, in both batch modes; and every
\* configuration on short uploads.
InitScenario ==
    \/ InitOver(BatchesUpTo(MaxScenario, Kinds, {<<3, 2>>}),
                {NoTemplate, UnsortedTemplate}, {"valid"}, {"none"},
                DefaultTunables, {FALSE}, {TRUE}, BOOLEAN)
    \/ InitConfigs

\* Every slider setting and image shape, with a key loaded, on uploads of
\* sound files, files that do not decode and files the grid estimation
\* rejects.
InitTunables ==
    InitOver(BatchesUpTo(MaxBatch, {"ok", "decode", "roi"}, Shapes), Templates,
             {"valid"}, {"none"}, AllTunables,
             BOOLEAN, {FALSE}, BOOLEAN)

\* Uploads around the cap: sound files, of which at most one (the first, the
\* last one kept or the first one dropped) does not decode; and every
\* configuration on short uploads.
InitCap ==
    \/ InitOver({ BigBatch(n, bad) :
                      n \in (Cap - 1)..(Cap + MaxOver),
                      bad \in { {}, {1}, {Cap}, {Cap + 1} } },
                {NoTemplate}, {"none", "valid"}, {"none"}, DefaultTunables,
                {FALSE}, {FALSE}, BOOLEAN)
    \/ InitConfigs

----------------------------------------------------------------------------
(* The script, top to bottom *)

\* The key upload handling shared by both uploaders: the sheet is selected
\* before parse_key_excel runs, so a file whose parse fails leaves key_sheet
\* set and key_map None.
KeySheetAfter(kind, name) == IF kind \in {"valid", "unparsable"} THEN name ELSE key_sheet
KeyMapAfter(kind) == IF kind = "valid" THEN "loaded" ELSE key_map

LoadKeySidebar ==
    /\ pc = "key_sidebar"
    /\ key_sheet' = KeySheetAfter(key_file_sidebar, "SidebarSheet")
    /\ key_map' = KeyMapAfter(key_file_sidebar)
    /\ pc' = "key_main"
    /\ UNCHANGED << config_vars, uploaded_files, run_vars >>

LoadKeyMain ==
    /\ pc = "key_main"
    /\ IF key_map = "none" /\ key_file_main # "none"
       THEN /\ key_sheet' = KeySheetAfter(key_file_main, "MainSheet")
            /\ key_map' = KeyMapAfter(key_file_main)
       ELSE UNCHANGED << key_sheet, key_map >>
    /\ pc' = "cap"
    /\ UNCHANGED << config_vars, uploaded_files, run_vars >>

\* `else: st.info(...)`: nothing was uploaded.
NoFiles ==
    /\ pc = "cap"
    /\ uploaded_files = <<>>
    /\ pc' = "done"
    /\ UNCHANGED << config_vars, key_sheet, key_map, uploaded_files, run_vars >>

\* The slice taken one file too long.
CappedFilesOneMore(files) ==
    IF Len(files) > Cap THEN SubSeq(files, 1, Cap + 1) ELSE files

CappedFiles(files) == IF Len(files) > Cap THEN SubSeq(files, 1, Cap) ELSE files

CapFiles ==
    /\ pc = "cap"
    /\ uploaded_files # <<>>
    /\ uploaded_files' = CappedFiles(uploaded_files)
    /\ pc' = "ready"
    /\ UNCHANGED << config_vars, key_sheet, key_map, run_vars >>

\* The Evaluate button is pressed.
ClickEvaluate ==
    /\ pc = "ready"
    /\ results' = <<>>
    /\ detailed_sheets' = <<>>
    /\ i' = 0
    /\ pc' = "loop"
    /\ UNCHANGED << config_vars, key_sheet, key_map, uploaded_files, answers,
                    detector_calls, posted, overlay, reported >>

\* The handler as `except Exception: pass`: no failure row.
ResultsAfterSilentExcept(res, uf) ==
    AppendIf(Completed(uf, "row"), res, SuccessRow(uf))

\* The rows put at the front of the list instead of its end.
ResultsAfterInsertFront(res, uf) ==
    LET withRow == IF Completed(uf, "row") THEN <<SuccessRow(uf)>> \o res ELSE res
    IN  IF RaisedAt(uf) # "none"
        THEN <<FailureRow(uf, RaisedAt(uf))>> \o withRow
        ELSE withRow

\* results after one pass of the loop body for uf: the row if the body got as
\* far as results.append(row), then the failure row if a statement raised.
ResultsAfter(res, uf) ==
    LET withRow == AppendIf(Completed(uf, "row"), res, SuccessRow(uf))
    IN  AppendIf(RaisedAt(uf) # "none", withRow, FailureRow(uf, RaisedAt(uf)))

\* One pass of `for i, uf in enumerate(uploaded_files, 1)`.
ProcessImage ==
    /\ pc = "loop"
    /\ i < Len(uploaded_files)
    /\ LET uf == uploaded_files[i + 1]
       IN  /\ detector_calls' = AppendIf(Started(uf, "detect"), detector_calls,
                                         DetectorCall(uf))
           /\ answers' = IF Completed(uf, "detect")
                         THEN [bound |-> TRUE, image |-> uf.name]
                         ELSE answers
           /\ results' = ResultsAfter(results, uf)
           /\ detailed_sheets' = AppendIf(Completed(uf, "sheet"), detailed_sheets,
                                          Sheet(uf))
           /\ posted' = AppendIf(Completed(uf, "persist"), posted, Payload(uf))
    /\ i' = i + 1
    /\ UNCHANGED << config_vars, key_sheet, key_map, uploaded_files, overlay,
                    reported, pc >>

\* The loop is exhausted: st.success("Evaluation complete!").
EndLoop ==
    /\ pc = "loop"
    /\ i = Len(uploaded_files)
    /\ pc' = "overlay"
    /\ UNCHANGED << config_vars, key_sheet, key_map, uploaded_files, run_vars >>

OverlayWanted ==
    HasTemplate /\ show_overlay /\ uploaded_files # <<>> /\ ~large_batch

OverlaySkipped ==
    /\ pc = "overlay"
    /\ ~OverlayWanted
    /\ pc' = "report"
    /\ UNCHANGED << config_vars, key_sheet, key_map, uploaded_files, run_vars >>

\* The template is parsed again before the overlay's try: a template that
\* json.loads rejects ends the script with an uncaught exception.
OverlayCrash ==
    /\ pc = "overlay"
    /\ OverlayWanted
    /\ tpl_file.kind = "unreadable"
    /\ pc' = "crashed"
    /\ UNCHANGED << config_vars, key_sheet, key_map, uploaded_files, run_vars >>

\* Inside the overlay's try: the first file is decoded and preprocessed again
\* and draw_overlay gets the variable `answers` as the loop left it (a
\* NameError when the loop never assigned it).
OverlayAfter(first, ans) ==
    IF first.kind \in {"decode", "orient", "rectify"} \/ ~ans.bound
    THEN [state |-> "failed", image |-> first.name, answers_of |-> 0]
    ELSE [state |-> "rendered", image |-> first.name, answers_of |-> ans.image]

OverlayRender ==
    /\ pc = "overlay"
    /\ OverlayWanted
    /\ tpl_file.kind # "unreadable"
    /\ overlay' = OverlayAfter(uploaded_files[1], answers)
    /\ pc' = "report"
    /\ UNCHANGED << config_vars, key_sheet, key_map, uploaded_files, results,
                    detailed_sheets, i, answers, detector_calls, posted, reported >>

\* `if results:` the summary table, the error table and the exports.
ReportOf(res, sheets) ==
    IF res # <<>>
    THEN [shown |-> TRUE, summary |-> res,
          sheets |-> IF large_batch THEN <<>> ELSE sheets]
    ELSE NotReported

Report ==
    /\ pc = "report"
    /\ reported' = ReportOf(results, detailed_sheets)
    /\ pc' = "done"
    /\ UNCHANGED << config_vars, key_sheet, key_map, uploaded_files, results,
                    detailed_sheets, i, answers, detector_calls, posted, overlay >>

Next ==
    \/ LoadKeySidebar
    \/ LoadKeyMain
    \/ NoFiles
    \/ CapFiles
    \/ ClickEvaluate
    \/ ProcessImage
    \/ EndLoop
    \/ OverlaySkipped
    \/ OverlayCrash
    \/ OverlayRender
    \/ Report

Spec == Init /\ [][Next]_vars

SpecScenario == InitScenario /\ [][Next]_vars

SpecTunables == InitTunables /\ [][Next]_vars

SpecCap == InitCap /\ [][Next]_vars

----------------------------------------------------------------------------
(* Vocabulary of the properties *)

\* The evaluation loop has run over the whole batch.
LoopDone == pc \in {"overlay", "report", "crashed", "done"}

\* The script has ended, normally or with an uncaught exception.
Ended == pc \in {"crashed", "done"}

IsPrefix(a, b) == Len(a) <= Len(b) /\ SubSeq(b, 1, Len(a)) = a

Min(a, b) == IF a <= b THEN a ELSE b

RecordsOf(n) == { j \in DOMAIN results : results[j].filename = n }

CallsOf(n) == { c \in DOMAIN detector_calls : detector_calls[c].image = n }

IsFailure(row) == row.error # ""

Occurrences(q, qs) == Cardinality({ k \in DOMAIN qs : qs[k] = q })

SameQuestions(a, b) ==
    /\ Len(a) = Len(b)
    /\ \A k \in DOMAIN a : Occurrences(a[k], a) = Occurrences(a[k], b)

AscendingIndex(qs) ==
    \A k \in 1..(Len(qs) - 1) : SortKey(qs[k]) <= SortKey(qs[k + 1])

AlignmentKwargs ==
    { <<"scale_x", scale_x>>, <<"scale_y", scale_y>>,
      <<"offset_x", offset_x>>, <<"offset_y", offset_y>> }

AlignmentNames == {"scale_x", "scale_y", "offset_x", "offset_y"}

KindsOf(files) == [ k \in DOMAIN files |-> files[k].kind ]

BrokenTemplate == tpl_file.kind \in {"unreadable", "invalid"}

\* A key file was uploaded and no key could be read from any upload.
KeyUnreadable ==
    /\ pc \notin {"key_sidebar", "key_main"}
    /\ key_map = "none"
    /\ (key_file_sidebar # "none" \/ key_file_main # "none")

----------------------------------------------------------------------------
(* C1 *)

\* C1: after the evaluation loop, results holds exactly one record for each
\* evaluated image, whichever step of the image's processing raised.
OneRecordPerImage ==
    LoopDone =>
        \A n \in 1..Len(uploaded_files) : Cardinality(RecordsOf(n)) = 1

----------------------------------------------------------------------------
(* C2 *)

\* Every image whose processing raised has a record with a failure reason and
\* no scores; once the loop is over every image of the batch was processed
\* and has a record.
FailuresAreRecorded ==
    /\ \A n \in 1..i :
          RaisedAt(uploaded_files[n]) # "none" =>
              \E j \in RecordsOf(n) :
                  IsFailure(results[j]) /\ results[j].scores_of = 0
    /\ LoopDone =>
          /\ i = Len(uploaded_files)
          /\ \A n \in 1..Len(uploaded_files) : RecordsOf(n) # {}

\* The batch of 3 whose second image does not decode (the template, if any,
\* being sound): 3 records, the first and the third success rows, scored from
\* their own answers when a key is loaded.
DecodeFailureScenario ==
    ( /\ LoopDone
      /\ KindsOf(uploaded_files) = << "ok", "decode", "ok" >>
      /\ ~BrokenTemplate )
    => /\ Len(results) = 3
       /\ results[1] = SuccessRow(uploaded_files[1])
       /\ results[2].filename = 2 /\ results[2].error = "decode"
       /\ results[2].scores_of = 0
       /\ results[3] = SuccessRow(uploaded_files[3])
       /\ KeyLoaded => results[1].scores_of = 1 /\ results[3].scores_of = 3

\* C2: a failure local to one image never aborts the batch: the image gets a
\* failure record without scores, the later images are still processed, and
\* the records produced before stay as they are.
FailureIsLocal ==
    /\ [](FailuresAreRecorded /\ DecodeFailureScenario)
    /\ [][IsPrefix(results, results')]_vars

FailureIsLocalWitness ==
    /\ pc = "done"
    /\ KindsOf(uploaded_files) = << "ok", "decode", "ok" >>
    /\ KeyLoaded
    /\ Len(results) = 3
    /\ IsFailure(results[2])
    /\ results[3].scores_of = 3
    /\ reported.summary = results

----------------------------------------------------------------------------
(* C3 *)

\* C3: when the template is unreadable or structurally invalid, or the answer
\* key cannot be read, no image is processed and no per-image record is
\* produced.
ConfigFailureIsFatal ==
    (BrokenTemplate \/ KeyUnreadable) =>
        /\ i = 0
        /\ results = <<>>
        /\ detector_calls = <<>>

----------------------------------------------------------------------------
(* C4 *)

\* C4: every call of the Mark Detector, in both strategies, is made with the
\* run's fill threshold and minimum margin.
TunablesReachDetector ==
    \A c \in DOMAIN detector_calls :
        /\ <<"fill_threshold", fill_threshold>> \in detector_calls[c].kwargs
        /\ <<"min_margin", min_margin>> \in detector_calls[c].kwargs

----------------------------------------------------------------------------
(* C5 *)

\* C5: without an answer key every successfully processed image has a
\* non-failure record with no scores, and its answers are part of the reported
\* output, in every mode.
AnswersReportedWithoutKey ==
    (pc = "done" /\ ~KeyLoaded) =>
        \A n \in 1..Len(uploaded_files) :
            RaisedAt(uploaded_files[n]) = "none" =>
                /\ \E j \in RecordsOf(n) :
                      ~IsFailure(results[j]) /\ results[j].scores_of = 0
                /\ \E k \in DOMAIN reported.sheets :
                      reported.sheets[k].answers_of = n

----------------------------------------------------------------------------
(* C6 *)

\* C6: the overlay of the first image is drawn from the answers detected for
\* that image.
OverlayUsesOwnAnswers ==
    overlay.state = "rendered" => overlay.answers_of = overlay.image

----------------------------------------------------------------------------
(* C7 *)

\* C7: records appear in input order: every record of an earlier image
\* precedes every record of a later image.
InputOrder ==
    \A a, b \in DOMAIN results :
        results[a].filename < results[b].filename => a < b

InputOrderWitness ==
    /\ pc = "done"
    /\ Len(uploaded_files) = 3
    /\ Len(results) > 3
    /\ IsFailure(results[1])
    /\ ~IsFailure(results[2])
    /\ results[1].filename = 1 /\ results[2].filename = 2

----------------------------------------------------------------------------
(* C8 *)

\* C8: the overlay step never changes the result records and never prevents
\* them from being reported: a run that ends with records has reported exactly
\* those records.
OverlayNeverBlocksReport ==
    (Ended /\ results # <<>>) =>
        /\ reported.shown
        /\ reported.summary = results

----------------------------------------------------------------------------
(* C9 *)

\* C9: the batch is the first 500 uploaded files when more were uploaded and
\* the whole upload otherwise; no file beyond it is ever processed, and each
\* evaluated image has the records its processing produces.
CapAt500 ==
    LET kept == Min(Len(selected), Cap) IN
    /\ (pc \notin {"key_sidebar", "key_main", "cap"} /\ selected # <<>>) =>
          uploaded_files = SubSeq(selected, 1, kept)
    /\ i <= kept
    /\ \A j \in DOMAIN results : results[j].filename <= i
    /\ LoopDone =>
          /\ i = kept
          /\ \A n \in 1..kept :
                SelectSeq(results, LAMBDA r : r.filename = n)
                    = ResultsAfter(<<>>, selected[n])

CapAt500Witness ==
    /\ pc = "done"
    /\ Len(selected) > Cap
    /\ Len(results) = Cap
    /\ results[Cap].filename = Cap
    /\ IsFailure(results[Cap])

----------------------------------------------------------------------------
(* C10 *)

\* C10: the ROI strategy depends only on whether a template was supplied and
\* is the same for every image: with a template every detector call gets the
\* template's questions in ascending index order and the run's alignment;
\* without one it gets the grid estimated from the image's own width and
\* height and no alignment.  Every image that reaches ROI resolution gets
\* exactly one such call.
StrategyByTemplate ==
    /\ \A c \in DOMAIN detector_calls :
          LET call == detector_calls[c]
              uf == uploaded_files[call.image]
          IN  IF tpl_file.kind # "none"
              THEN /\ call.strategy = "template"
                   /\ SameQuestions(call.questions, tpl_file.questions)
                   /\ AscendingIndex(call.questions)
                   /\ AlignmentKwargs \subseteq call.kwargs
              ELSE /\ call.strategy = "grid"
                   /\ call.grid_wh = << uf.shape[2], uf.shape[1] >>
                   /\ call.questions = estimate_grid_rois(uf.shape[2], uf.shape[1])
                   /\ \A kw \in call.kwargs : kw[1] \notin AlignmentNames
    /\ \A n \in 1..i :
          LET uf == uploaded_files[n]
              reaches == /\ uf.kind \notin {"decode", "orient", "rectify"}
                         /\ ~BrokenTemplate
                         /\ (tpl_file.kind = "none" => uf.kind # "roi")
          IN  Cardinality(CallsOf(n)) = IF reaches THEN 1 ELSE 0

StrategyByTemplateWitness ==
    /\ pc = "done"
    /\ tpl_file = UnsortedTemplate
    /\ scale_x # 1000
    /\ Len(detector_calls) = 2
    /\ detector_calls[1].questions # tpl_file.questions
    /\ detector_calls[1].image # detector_calls[2].image

====
